---------------------------- MODULE Spec2Model ----------------------------
(***************************************************************************)
(* A model of rust_extensions/src/lib.rs: the concurrent timer manager,    *)
(* the task batch processor with its two time-string parsers, and the      *)
(* batch correlation matrix.                                               *)
(*                                                                         *)
(* Numbers.  u32 and u64 values are kept at their true width as two limbs  *)
(* [hi, lo] in base 2^16, so that overflow of the 32-bit arithmetic of the *)
(* parsers happens at 2^32 as in the program.  f64 values are binary       *)
(* floating-point numbers m * 2^e with round-to-nearest, ties-to-even, as  *)
(* IEEE-754 binary64, with a significand of MantBits bits in place of 53   *)
(* and an unbounded exponent: every operation rounds its exact result      *)
(* once, so sums are commutative and not associative, as in the program.   *)
(*                                                                         *)
(* Text.  A string is a sequence of characters, a character a one-element  *)
(* string; "U0663" stands for ARABIC-INDIC DIGIT THREE, a decimal digit    *)
(* for the regex class \d that u32::from_str rejects.                      *)
(***************************************************************************)
EXTENDS Integers, Sequences, FiniteSets, TLC

\* ------------------------------------------------------------------------
\* Bounds of the model
\* ------------------------------------------------------------------------
MantBits == 12
MaxTimers == 3
MaxOvershoot == 1
MaxTasks == 3
MaxFields == 4
MaxVars == 3
MaxSample == 3

\* ------------------------------------------------------------------------
\* Integer helpers
\* ------------------------------------------------------------------------
Abs(n) == IF n < 0 THEN -n ELSE n

Sgn(n) == IF n < 0 THEN -1 ELSE IF n = 0 THEN 0 ELSE 1

RECURSIVE BitLen(_)
BitLen(n) == IF n = 0 THEN 0 ELSE 1 + BitLen(n \div 2)

\* ------------------------------------------------------------------------
\* u32 / u64: two limbs in base 2^16; hi < 2^16 for a u32
\* ------------------------------------------------------------------------
LimbBase == 2^16

Wide(hi, lo) == [hi |-> hi, lo |-> lo]

WZero == Wide(0, 0)

WFromNat(n) == Wide(n \div LimbBase, n % LimbBase)

WAdd(a, b) == Wide(a.hi + b.hi + ((a.lo + b.lo) \div LimbBase), (a.lo + b.lo) % LimbBase)

\* a * k for a small factor k (k * 2^16 stays below 2^31)
WMulSmall(a, k) == Wide(a.hi * k + ((a.lo * k) \div LimbBase), (a.lo * k) % LimbBase)

FitsU32(a) == a.hi < LimbBase

Wrap32(a) == Wide(a.hi % LimbBase, a.lo)

\* ------------------------------------------------------------------------
\* f64: m * 2^e, m = 0 or 2^(MantBits-1) <= |m| < 2^MantBits
\* ------------------------------------------------------------------------
Flt(m, e) == [m |-> m, e |-> e]

FZero == Flt(0, 0)

\* n * 2^e rounded once to MantBits significant bits, ties to even
RoundNear(n, e) ==
    IF n = 0 THEN FZero
    ELSE LET a == Abs(n)
             len == BitLen(a)
         IN IF len <= MantBits
            THEN Flt(Sgn(n) * a * 2^(MantBits - len), e - (MantBits - len))
            ELSE LET k == len - MantBits
                     q == a \div 2^k
                     r == a % 2^k
                     half == 2^(k - 1)
                     q1 == IF r > half \/ (r = half /\ q % 2 = 1) THEN q + 1 ELSE q
                 IN IF q1 = 2^MantBits
                    THEN Flt(Sgn(n) * 2^(MantBits - 1), e + k + 1)
                    ELSE Flt(Sgn(n) * q1, e + k)

FFromInt(n) == RoundNear(n, 0)

\* `x as f64` for a u32 or u64 x: the low bits beyond the significand are
\* folded into one sticky bit before the single rounding
FFromWide(a) ==
    IF a.hi < 2^14 THEN RoundNear(a.hi * LimbBase + a.lo, 0)
    ELSE RoundNear(2 * (a.hi * 2^8 + (a.lo \div 2^8)) + (IF a.lo % 2^8 = 0 THEN 0 ELSE 1), 7)

\* NaN, the result of 0.0 / 0.0 and of the square root of a negative number
FNaN == Flt(0, 1)

IsNaN(a) == a = FNaN

FNeg(a) == IF IsNaN(a) THEN FNaN ELSE Flt(-a.m, a.e)

FAdd(a, b) ==
    IF IsNaN(a) \/ IsNaN(b) THEN FNaN
    ELSE IF a.m = 0 THEN b
    ELSE IF b.m = 0 THEN a
    ELSE IF a.e - b.e > MantBits + 2 THEN a
    ELSE IF b.e - a.e > MantBits + 2 THEN b
    ELSE LET lo == IF a.e < b.e THEN a.e ELSE b.e
         IN RoundNear(a.m * 2^(a.e - lo) + b.m * 2^(b.e - lo), lo)

FSub(a, b) == FAdd(a, FNeg(b))

FMul(a, b) ==
    IF IsNaN(a) \/ IsNaN(b) THEN FNaN ELSE RoundNear(a.m * b.m, a.e + b.e)

\* a / b for b # 0, and 0.0 / 0.0: the quotient to MantBits + 2 bits and a
\* sticky bit
FDiv(a, b) ==
    IF IsNaN(a) \/ IsNaN(b) \/ b.m = 0 THEN FNaN
    ELSE LET num == Abs(a.m) * 2^(MantBits + 2)
             q == num \div Abs(b.m)
             sticky == IF num % Abs(b.m) = 0 THEN 0 ELSE 1
         IN RoundNear(Sgn(a.m) * Sgn(b.m) * (2 * q + sticky),
                      a.e - b.e - (MantBits + 2) - 1)

RECURSIVE ISqrtFrom(_, _, _)
\* the integer square root of n, searched by bisection in lo..hi
ISqrtFrom(n, lo, hi) ==
    IF lo = hi THEN lo
    ELSE LET mid == (lo + hi + 1) \div 2
         IN IF mid * mid <= n THEN ISqrtFrom(n, mid, hi) ELSE ISqrtFrom(n, lo, mid - 1)

ISqrt(n) == ISqrtFrom(n, 0, 2^15)

SqrtShift == (30 - (MantBits + 1)) \div 2

\* f64::sqrt: correctly rounded; NaN for a negative argument
FSqrt(a) ==
    IF IsNaN(a) \/ a.m < 0 THEN FNaN
    ELSE IF a.m = 0 THEN FZero
    ELSE LET odd == a.e % 2 # 0
             m2 == IF odd THEN 2 * a.m ELSE a.m
             e2 == IF odd THEN a.e - 1 ELSE a.e
             n == m2 * 2^(2 * SqrtShift)
             r == ISqrt(n)
             sticky == IF r * r = n THEN 0 ELSE 1
         IN RoundNear(2 * r + sticky, (e2 \div 2) - SqrtShift - 1)

\* the sign of a - b, for numbers
FCmp(a, b) ==
    IF a.m = 0 THEN -Sgn(b.m)
    ELSE IF b.m = 0 THEN Sgn(a.m)
    ELSE IF Sgn(a.m) # Sgn(b.m) THEN Sgn(a.m)
    ELSE IF a.e > b.e THEN Sgn(a.m)
    ELSE IF a.e < b.e THEN -Sgn(a.m)
    ELSE Sgn(a.m - b.m)

\* every comparison with NaN is false
FLt(a, b) == ~IsNaN(a) /\ ~IsNaN(b) /\ FCmp(a, b) < 0

FGe(a, b) == ~IsNaN(a) /\ ~IsNaN(b) /\ FCmp(a, b) >= 0

FAbs(a) == IF IsNaN(a) THEN FNaN ELSE Flt(Abs(a.m), a.e)

\* f64::EPSILON: the gap between 1.0 and the next number
FEpsilon == Flt(2^(MantBits - 1), -2 * (MantBits - 1))

RECURSIVE FSumFrom(_, _, _)
\* the left fold of the elements of s from the i-th on, started from acc
FSumFrom(acc, s, i) ==
    IF IsNaN(acc) \/ i > Len(s) THEN acc ELSE FSumFrom(FAdd(acc, s[i]), s, i + 1)

\* Iterator::sum over a Vec<f64>: a left fold from 0.0
FSum(s) == FSumFrom(FZero, s, 1)


\* ------------------------------------------------------------------------
\* Text and the two time-string parsers
\* ------------------------------------------------------------------------
Digits == <<"0", "1", "2", "3", "4", "5", "6", "7", "8", "9">>

IsAsciiDigit(c) == \E i \in 1..10 : Digits[i] = c

DigitVal(c) == (CHOOSE i \in 1..10 : Digits[i] = c) - 1

\* the regex class \d (Unicode decimal digits)
IsRegexDigit(c) == IsAsciiDigit(c) \/ c = "U0663"

\* Result<u32, ParseIntError>
ParseOk(w) == [ok |-> TRUE, v |-> w]

ParseErr == [ok |-> FALSE, v |-> WZero]

RECURSIVE ParseDigits(_, _)
\* the digit loop of u32::from_str: checked_mul(10) then checked_add(digit)
ParseDigits(s, acc) ==
    IF s = <<>> THEN ParseOk(acc)
    ELSE IF ~IsAsciiDigit(Head(s)) THEN ParseErr
    ELSE LET next == WAdd(WMulSmall(acc, 10), Wide(0, DigitVal(Head(s))))
         IN IF FitsU32(next) THEN ParseDigits(Tail(s), next) ELSE ParseErr

\* str::parse::<u32>(): an optional leading "+", then one or more ASCII digits
ParseU32(s) ==
    IF s = <<>> THEN ParseErr
    ELSE IF Len(s) = 1 /\ Head(s) \in {"+", "-"} THEN ParseErr
    ELSE IF Head(s) = "+" THEN ParseDigits(Tail(s), WZero)
    ELSE ParseDigits(s, WZero)

\* .parse().unwrap_or(0)
ParseOrZero(s) == IF ParseU32(s).ok THEN ParseU32(s).v ELSE WZero

RECURSIVE Split(_)
\* str::split(':')
Split(s) ==
    IF \E i \in 1..Len(s) : s[i] = ":"
    THEN LET i == CHOOSE k \in 1..Len(s) : s[k] = ":" /\ \A j \in 1..(k - 1) : s[j] # ":"
         IN <<SubSeq(s, 1, i - 1)>> \o Split(SubSeq(s, i + 1, Len(s)))
    ELSE <<s>>

\* hours * 3600 + minutes * 60 + seconds in u32: the value modulo 2^32 and
\* whether one of the four operations left the u32 range
HmsU32(hours, minutes, seconds) ==
    LET t1 == WMulSmall(hours, 3600)
        t2 == WMulSmall(minutes, 60)
        t3 == WAdd(Wrap32(t1), Wrap32(t2))
        t4 == WAdd(Wrap32(t3), seconds)
    IN [value |-> Wrap32(t4),
        overflow |-> ~(FitsU32(t1) /\ FitsU32(t2) /\ FitsU32(t3) /\ FitsU32(t4))]

NoOverflow(w) == [value |-> w, overflow |-> FALSE]

parse_time_string_fast(time_str) ==
    LET parts == Split(time_str)
    IN IF Len(parts) = 3
       THEN HmsU32(ParseOrZero(parts[1]), ParseOrZero(parts[2]), ParseOrZero(parts[3]))
       ELSE NoOverflow(WZero)

\* the captures of ^(\d{1,2}):(\d{2}):(\d{2})$ on time_str, <<>> when there is no match
RegexCaptures(time_str) ==
    LET n == Len(time_str)
        h == n - 6
    IN IF /\ n \in {7, 8}
          /\ \A i \in 1..h : IsRegexDigit(time_str[i])
          /\ time_str[h + 1] = ":"
          /\ IsRegexDigit(time_str[h + 2]) /\ IsRegexDigit(time_str[h + 3])
          /\ time_str[h + 4] = ":"
          /\ IsRegexDigit(time_str[h + 5]) /\ IsRegexDigit(time_str[h + 6])
       THEN <<SubSeq(time_str, 1, h), SubSeq(time_str, h + 2, h + 3),
              SubSeq(time_str, h + 5, h + 6)>>
       ELSE <<>>

\* (variant) the second and third capture are taken in the wrong order
parse_time_to_seconds_swapped(time_str) ==
    LET captures == RegexCaptures(time_str)
    IN IF captures # <<>>
       THEN HmsU32(ParseOrZero(captures[1]), ParseOrZero(captures[3]),
                   ParseOrZero(captures[2]))
       ELSE NoOverflow(WZero)

\* the closure of parse_time_to_seconds_batch applied to one string
parse_time_to_seconds(time_str) ==
    LET captures == RegexCaptures(time_str)
    IN IF captures # <<>>
       THEN HmsU32(ParseOrZero(captures[1]), ParseOrZero(captures[2]),
                   ParseOrZero(captures[3]))
       ELSE NoOverflow(WZero)


\* ------------------------------------------------------------------------
\* State
\* ------------------------------------------------------------------------
VARIABLES
    \* manage_concurrent_timers
    timer_count,        \* argument
    duration_seconds,   \* argument, in clock ticks
    main_pc,            \* position of the calling thread
    shared,             \* TRUE once the two Arc<Mutex<..>> exist
    completed_count,    \* the value inside Mutex<i32>
    count_locked,       \* the counter's mutex is held
    precision_errors,   \* the Vec<f64> inside its mutex
    errors_locked,      \* the list's mutex is held
    handles,            \* number of threads spawned so far
    joined,             \* number of handles joined so far
    w_pc,               \* position of each worker thread
    w_elapsed,          \* each worker's actual_duration, in ticks
    w_error,            \* each worker's local `error`
    w_count,            \* each worker's copy of the counter between load and store
    completed_timers,   \* the calling thread's local copy of the counter
    report,             \* <<>> or <<the returned dictionary>>
    \* process_tasks_batch
    duration_strings,   \* argument
    scores,             \* argument
    global_payrate,     \* argument
    bonus_payrate,      \* argument
    bonus_enabled,      \* argument
    overflow_checks,    \* the build panics on integer overflow (debug) or wraps (release)
    batch_pc,           \* position of the call
    results,            \* the Vec<TaskResult> being collected: <<>> or <<r>> per slot
    next_result,        \* index of the next element of `results` to aggregate
    total_seconds,      \* u64 accumulator
    total_earnings,     \* f64 accumulator
    total_score,        \* f64 accumulator
    fail_count,         \* u32 accumulator
    bonus_tasks_count,  \* u32 accumulator
    batch_ret,          \* <<>> or <<the returned dictionary>>
    \* parse_time_to_seconds_batch
    time_strings,       \* argument
    parse_pc,           \* position of the call
    seconds,            \* the Vec<u32> being collected: <<>> or <<n>> per slot
    \* calculate_batch_correlations
    data_dict,          \* argument: the Python dict, a function from names to lists
    corr_pc,            \* position of the call
    data_map,           \* the HashMap<String, Vec<f64>>
    variables,          \* the Vec<String> of its keys, in the map's iteration order
    correlations,       \* the Vec<((String, String), f64)>
    corr_ret,           \* <<>> or <<the returned dictionary>>
    corr_prev,          \* <<>> or <<the dictionary an earlier call returned>>
    \* the statistical entry points
    stat_call,          \* the entry point called and its arguments
    stat_ret            \* <<>> or <<the value returned>>

timer_vars == <<timer_count, duration_seconds, main_pc, shared, completed_count,
                count_locked, precision_errors, errors_locked, handles, joined,
                w_pc, w_elapsed, w_error, w_count, completed_timers, report>>

batch_vars == <<duration_strings, scores, global_payrate, bonus_payrate, bonus_enabled,
                overflow_checks, batch_pc, results, next_result, total_seconds,
                total_earnings, total_score, fail_count, bonus_tasks_count, batch_ret>>

parse_vars == <<time_strings, parse_pc, seconds>>

corr_vars == <<data_dict, corr_pc, data_map, variables, correlations, corr_ret, corr_prev>>

stat_vars == <<stat_call, stat_ret>>

vars == <<timer_vars, batch_vars, parse_vars, corr_vars, stat_vars>>

non_timer_vars == <<batch_vars, parse_vars, corr_vars, stat_vars>>

non_batch_vars == <<timer_vars, parse_vars, corr_vars, stat_vars>>

non_parse_vars == <<timer_vars, batch_vars, corr_vars, stat_vars>>

non_corr_vars == <<timer_vars, batch_vars, parse_vars, stat_vars>>

non_stat_vars == <<timer_vars, batch_vars, parse_vars, corr_vars>>

\* ------------------------------------------------------------------------
\* manage_concurrent_timers
\* ------------------------------------------------------------------------
Workers == 1..MaxTimers

\* the arguments tried: duration_seconds < 0 makes Duration::from_secs_f64 panic
Durations == {-1, 0, 1}

TimerStart ==
    /\ timer_count \in 0..MaxTimers
    /\ duration_seconds \in Durations
    /\ main_pc = "idle"
    /\ shared = FALSE
    /\ completed_count = 0
    /\ count_locked = FALSE
    /\ precision_errors = <<>>
    /\ errors_locked = FALSE
    /\ handles = 0
    /\ joined = 0
    /\ w_pc = [w \in Workers |-> "unspawned"]
    /\ w_elapsed = [w \in Workers |-> 0]
    /\ w_error = [w \in Workers |-> FZero]
    /\ w_count = [w \in Workers |-> 0]
    /\ completed_timers = 0
    /\ report = <<>>

ZeroReport ==
    [completed_timers |-> 0, total_elapsed |-> FZero, average_precision |-> FZero]

\* (variant) no short-circuit: a call with timer_count = 0 sets up the shared
\* state and goes on to the (empty) spawn and join loops
ZeroFallThrough ==
    /\ main_pc = "idle"
    /\ timer_count = 0
    /\ shared' = TRUE
    /\ main_pc' = "joined"
    /\ UNCHANGED <<timer_count, duration_seconds, completed_count, count_locked,
                   precision_errors, errors_locked, handles, joined, w_pc, w_elapsed,
                   w_error, w_count, completed_timers, report, non_timer_vars>>

\* if timer_count == 0 { ... return Ok(result) }
ZeroReturn ==
    /\ main_pc = "idle"
    /\ timer_count = 0
    /\ report' = <<ZeroReport>>
    /\ main_pc' = "reported"
    /\ UNCHANGED <<timer_count, duration_seconds, shared, completed_count, count_locked,
                   precision_errors, errors_locked, handles, joined, w_pc, w_elapsed,
                   w_error, w_count, completed_timers, non_timer_vars>>

\* Duration::from_secs_f64 panics on a negative argument
DurationPanic ==
    /\ main_pc = "idle"
    /\ timer_count # 0
    /\ duration_seconds < 0
    /\ main_pc' = "panicked"
    /\ UNCHANGED <<timer_count, duration_seconds, shared, completed_count, count_locked,
                   precision_errors, errors_locked, handles, joined, w_pc, w_elapsed,
                   w_error, w_count, completed_timers, report, non_timer_vars>>

\* Arc::new(Mutex::new(0)), Arc::new(Mutex::new(Vec::new()))
CreateShared ==
    /\ main_pc = "idle"
    /\ timer_count # 0
    /\ duration_seconds >= 0
    /\ shared' = TRUE
    /\ completed_count' = 0
    /\ precision_errors' = <<>>
    /\ main_pc' = "spawning"
    /\ UNCHANGED <<timer_count, duration_seconds, count_locked, errors_locked, handles,
                   joined, w_pc, w_elapsed, w_error, w_count, completed_timers, report,
                   non_timer_vars>>

\* (0..timer_count).map(|_| thread::spawn(..)).collect()
Spawn ==
    /\ main_pc = "spawning"
    /\ handles < timer_count
    /\ handles' = handles + 1
    /\ w_pc' = [w_pc EXCEPT ![handles + 1] = "sleeping"]
    /\ main_pc' = IF handles + 1 = timer_count THEN "joining" ELSE "spawning"
    /\ UNCHANGED <<timer_count, duration_seconds, shared, completed_count, count_locked,
                   precision_errors, errors_locked, joined, w_elapsed, w_error, w_count,
                   completed_timers, report, non_timer_vars>>

\* thread::sleep returns after at least target_duration; the worker then
\* computes error = |actual_duration - target_duration|
Wake(w) ==
    /\ w_pc[w] = "sleeping"
    /\ \E over \in 0..MaxOvershoot :
          /\ w_elapsed' = [w_elapsed EXCEPT ![w] = duration_seconds + over]
          /\ w_error' = [w_error EXCEPT ![w] =
                FAbs(FSub(FFromInt(duration_seconds + over), FFromInt(duration_seconds)))]
    /\ w_pc' = [w_pc EXCEPT ![w] = "woke"]
    /\ UNCHANGED <<timer_count, duration_seconds, main_pc, shared, completed_count,
                   count_locked, precision_errors, errors_locked, handles, joined,
                   w_count, completed_timers, report, non_timer_vars>>

\* (variant) a lock that never blocks
CanLockUnguarded(held) == TRUE

\* Mutex::lock: blocks while the mutex is held
CanLock(held) == ~held

\* completed_count.lock().unwrap()
LockCount(w) ==
    /\ w_pc[w] = "woke"
    /\ CanLock(count_locked)
    /\ count_locked' = TRUE
    /\ w_pc' = [w_pc EXCEPT ![w] = "count_locked"]
    /\ UNCHANGED <<timer_count, duration_seconds, main_pc, shared, completed_count,
                   precision_errors, errors_locked, handles, joined, w_elapsed, w_error,
                   w_count, completed_timers, report, non_timer_vars>>

\* *count += 1: the load
LoadCount(w) ==
    /\ w_pc[w] = "count_locked"
    /\ w_count' = [w_count EXCEPT ![w] = completed_count]
    /\ w_pc' = [w_pc EXCEPT ![w] = "count_loaded"]
    /\ UNCHANGED <<timer_count, duration_seconds, main_pc, shared, completed_count,
                   count_locked, precision_errors, errors_locked, handles, joined,
                   w_elapsed, w_error, completed_timers, report, non_timer_vars>>

\* *count += 1: the store
StoreCount(w) ==
    /\ w_pc[w] = "count_loaded"
    /\ completed_count' = w_count[w] + 1
    /\ w_pc' = [w_pc EXCEPT ![w] = "count_stored"]
    /\ UNCHANGED <<timer_count, duration_seconds, main_pc, shared, count_locked,
                   precision_errors, errors_locked, handles, joined, w_elapsed, w_error,
                   w_count, completed_timers, report, non_timer_vars>>

\* the guard `count` is dropped at the end of its block
UnlockCount(w) ==
    /\ w_pc[w] = "count_stored"
    /\ count_locked' = FALSE
    /\ w_pc' = [w_pc EXCEPT ![w] = "count_released"]
    /\ UNCHANGED <<timer_count, duration_seconds, main_pc, shared, completed_count,
                   precision_errors, errors_locked, handles, joined, w_elapsed, w_error,
                   w_count, completed_timers, report, non_timer_vars>>

\* precision_errors.lock().unwrap()
LockErrors(w) ==
    /\ w_pc[w] = "count_released"
    /\ CanLock(errors_locked)
    /\ errors_locked' = TRUE
    /\ w_pc' = [w_pc EXCEPT ![w] = "errors_locked"]
    /\ UNCHANGED <<timer_count, duration_seconds, main_pc, shared, completed_count,
                   count_locked, precision_errors, handles, joined, w_elapsed, w_error,
                   w_count, completed_timers, report, non_timer_vars>>

\* errors.push(error)
PushError(w) ==
    /\ w_pc[w] = "errors_locked"
    /\ precision_errors' = Append(precision_errors, w_error[w])
    /\ w_pc' = [w_pc EXCEPT ![w] = "errors_pushed"]
    /\ UNCHANGED <<timer_count, duration_seconds, main_pc, shared, completed_count,
                   count_locked, errors_locked, handles, joined, w_elapsed, w_error,
                   w_count, completed_timers, report, non_timer_vars>>

\* the guard `errors` is dropped and the thread's closure returns
UnlockErrors(w) ==
    /\ w_pc[w] = "errors_pushed"
    /\ errors_locked' = FALSE
    /\ w_pc' = [w_pc EXCEPT ![w] = "done"]
    /\ UNCHANGED <<timer_count, duration_seconds, main_pc, shared, completed_count,
                   count_locked, precision_errors, handles, joined, w_elapsed, w_error,
                   w_count, completed_timers, report, non_timer_vars>>

\* (variant) a join that does not wait for the thread
CanJoinRunning(w) == w_pc[w] # "unspawned"

\* JoinHandle::join returns once the thread has finished
CanJoin(w) == w_pc[w] = "done"

\* for handle in handles { handle.join().unwrap(); }
Join ==
    /\ main_pc = "joining"
    /\ joined < timer_count
    /\ CanJoin(joined + 1)
    /\ joined' = joined + 1
    /\ main_pc' = IF joined + 1 = timer_count THEN "joined" ELSE "joining"
    /\ UNCHANGED <<timer_count, duration_seconds, shared, completed_count, count_locked,
                   precision_errors, errors_locked, handles, w_pc, w_elapsed, w_error,
                   w_count, completed_timers, report, non_timer_vars>>

\* let completed_timers = *completed_count.lock().unwrap();
ReadCount ==
    /\ main_pc = "joined"
    /\ CanLock(count_locked)
    /\ completed_timers' = completed_count
    /\ main_pc' = "counted"
    /\ UNCHANGED <<timer_count, duration_seconds, shared, completed_count, count_locked,
                   precision_errors, errors_locked, handles, joined, w_pc, w_elapsed,
                   w_error, w_count, report, non_timer_vars>>

\* errors.iter().sum::<f64>() / errors.len() as f64, or 0.0 for an empty list
AveragePrecision(errors) ==
    IF errors # <<>> THEN FDiv(FSum(errors), FFromInt(Len(errors))) ELSE FZero

\* the largest actual_duration of the workers spawned
MaxElapsed ==
    IF handles = 0 THEN 0
    ELSE CHOOSE m \in {w_elapsed[w] : w \in 1..handles} : \A w \in 1..handles : w_elapsed[w] <= m

\* let errors = precision_errors.lock().unwrap(); ... Ok(result.into())
\* total_elapsed spans every worker's sleep
Report ==
    /\ main_pc = "counted"
    /\ CanLock(errors_locked)
    /\ \E over \in 0..MaxOvershoot :
          report' = <<[completed_timers |-> completed_timers,
                       total_elapsed |-> FFromInt(MaxElapsed + over),
                       average_precision |-> AveragePrecision(precision_errors),
                       target_duration |-> FFromInt(duration_seconds)]>>
    /\ errors_locked' = TRUE
    /\ main_pc' = "reported"
    /\ UNCHANGED <<timer_count, duration_seconds, shared, completed_count, count_locked,
                   precision_errors, handles, joined, w_pc, w_elapsed, w_error, w_count,
                   completed_timers, non_timer_vars>>

WorkerStep(w) ==
    \/ Wake(w)
    \/ LockCount(w)
    \/ LoadCount(w)
    \/ StoreCount(w)
    \/ UnlockCount(w)
    \/ LockErrors(w)
    \/ PushError(w)
    \/ UnlockErrors(w)

TimerNext ==
    \/ ZeroReturn
    \/ DurationPanic
    \/ CreateShared
    \/ Spawn
    \/ \E w \in Workers : WorkerStep(w)
    \/ Join
    \/ ReadCount
    \/ Report


\* ------------------------------------------------------------------------
\* process_tasks_batch
\* ------------------------------------------------------------------------
F3 == FFromInt(3)

F100 == FFromInt(100)

F3600 == FFromInt(3600)

\* the duration strings tried
Text0100 == <<"0", "1", ":", "0", "0", ":", "0", "0">>

Text0020 == <<"0", "0", ":", "2", "0", ":", "0", "0">>

Text0040 == <<"0", "0", ":", "4", "0", ":", "0", "0">>

TextBadHour == <<"x", ":", "0", "0", ":", "3", "0">>

TextHuge == <<"1", "1", "9", "3", "0", "4", "7", ":", "0", "0", ":", "0", "0">>

TextNoColon == <<"a", "b", "c">>

TextHugeBadMinute == <<"1", "1", "9", "3", "0", "4", "7", ":", "x", ":", "0", "0">>

\* the records tried: a duration string and a score
TaskInputs ==
    {<<Text0100, FFromInt(5)>>, <<Text0020, F3>>, <<Text0040, FFromInt(2)>>,
     <<TextBadHour, FFromInt(2)>>, <<TextHuge, FFromInt(5)>>, <<TextNoColon, F3>>}

SeqsUpTo(S, n) == UNION {[1..k -> S] : k \in 0..n}

BatchIdle ==
    /\ duration_strings = <<>>
    /\ scores = <<>>
    /\ global_payrate = FZero
    /\ bonus_payrate = FZero
    /\ bonus_enabled = FALSE
    /\ overflow_checks = FALSE
    /\ batch_pc = "idle"
    /\ results = <<>>
    /\ next_result = 0
    /\ total_seconds = WZero
    /\ total_earnings = FZero
    /\ total_score = FZero
    /\ fail_count = 0
    /\ bonus_tasks_count = 0
    /\ batch_ret = <<>>

\* a call with any records tried; the two vectors have the same length or one
\* of them is one element shorter
BatchStart ==
    /\ \E tasks \in SeqsUpTo(TaskInputs, MaxTasks), short \in {"none", "durations", "scores"} :
          /\ short # "none" => Len(tasks) > 0
          /\ duration_strings =
                [i \in 1..(Len(tasks) - (IF short = "durations" THEN 1 ELSE 0)) |-> tasks[i][1]]
          /\ scores =
                [i \in 1..(Len(tasks) - (IF short = "scores" THEN 1 ELSE 0)) |-> tasks[i][2]]
    /\ global_payrate = FFromInt(10)
    /\ bonus_payrate = FFromInt(20)
    /\ bonus_enabled \in BOOLEAN
    /\ overflow_checks \in BOOLEAN
    /\ batch_pc = "entry"
    /\ results = <<>>
    /\ next_result = 0
    /\ total_seconds = WZero
    /\ total_earnings = FZero
    /\ total_score = FZero
    /\ fail_count = 0
    /\ bonus_tasks_count = 0
    /\ batch_ret = <<>>

\* (variant) the lengths are not compared
LengthUnchecked == FALSE

\* duration_strings.len() != scores.len()
LengthMismatch == Len(duration_strings) # Len(scores)

\* return Err(PyValueError::new_err(..))
RaiseMismatch ==
    /\ batch_pc = "entry"
    /\ LengthMismatch
    /\ batch_pc' = "raised"
    /\ UNCHANGED <<duration_strings, scores, global_payrate, bonus_payrate, bonus_enabled,
                   overflow_checks, results, next_result, total_seconds, total_earnings,
                   total_score, fail_count, bonus_tasks_count, batch_ret, non_batch_vars>>

\* (variant) the average and the rate of an empty batch are computed: 0.0 / 0.0
ZeroAggregateDivided ==
    [total_seconds |-> WZero, total_earnings |-> FZero,
     average_score |-> FDiv(FZero, FFromInt(0)),
     fail_count |-> 0, bonus_tasks_count |-> 0, task_count |-> 0,
     fail_rate |-> FMul(FDiv(FFromInt(0), FFromInt(0)), F100)]

ZeroAggregate ==
    [total_seconds |-> WZero, total_earnings |-> FZero, average_score |-> FZero,
     fail_count |-> 0, bonus_tasks_count |-> 0, task_count |-> 0, fail_rate |-> FZero]

\* if task_count == 0 { ... return Ok(result_dict.into()) }
ReturnEmpty ==
    /\ batch_pc = "entry"
    /\ ~LengthMismatch
    /\ Len(duration_strings) = 0
    /\ batch_ret' = <<ZeroAggregate>>
    /\ batch_pc' = "returned"
    /\ UNCHANGED <<duration_strings, scores, global_payrate, bonus_payrate, bonus_enabled,
                   overflow_checks, results, next_result, total_seconds, total_earnings,
                   total_score, fail_count, bonus_tasks_count, non_batch_vars>>

\* the number of pairs of duration_strings.par_iter().zip(scores.par_iter())
ZipLen == IF Len(duration_strings) < Len(scores) THEN Len(duration_strings) ELSE Len(scores)

\* the parallel map begins: no element of `results` is there yet
StartMap ==
    /\ batch_pc = "entry"
    /\ ~LengthMismatch
    /\ Len(duration_strings) # 0
    /\ results' = [i \in 1..ZipLen |-> <<>>]
    /\ batch_pc' = "map"
    /\ UNCHANGED <<duration_strings, scores, global_payrate, bonus_payrate, bonus_enabled,
                   overflow_checks, next_result, total_seconds, total_earnings, total_score,
                   fail_count, bonus_tasks_count, batch_ret, non_batch_vars>>

\* (variant) the bonus switch is ignored
IsBonusAlwaysOn(score) == FGe(score, F3)

\* is_bonus = bonus_enabled && score >= 3.0
IsBonus(score) == bonus_enabled /\ FGe(score, F3)

\* is_fail: score < 3.0
IsFail(score) == FLt(score, F3)

\* the closure of the parallel map, given the parsed duration
TaskResult(duration, score) ==
    [duration_seconds |-> duration,
     earnings |-> FMul(FDiv(FFromWide(duration), F3600),
                       IF IsBonus(score) THEN bonus_payrate ELSE global_payrate),
     score |-> score,
     is_fail |-> IsFail(score),
     is_bonus |-> IsBonus(score)]

\* (variant) results are pushed in the order in which the workers finish
ResultSlotArrival(i) == Cardinality({k \in 1..Len(results) : results[k] # <<>>}) + 1

\* collect() of an indexed parallel iterator keeps the input order: the result
\* of pair i is element i of the Vec
ResultSlot(i) == i

Pending == {i \in 1..ZipLen : \A k \in 1..Len(results) : results[k] = <<>> \/ results[k][1].pair # i}

\* a worker of the pool processes pair i, whichever pair it is given
MapTask(i) ==
    /\ batch_pc = "map"
    /\ i \in Pending
    /\ LET parsed == parse_time_string_fast(duration_strings[i])
       IN IF parsed.overflow /\ overflow_checks
          THEN /\ batch_pc' = "panicked"
               /\ UNCHANGED results
          ELSE /\ results' = [results EXCEPT ![ResultSlot(i)] =
                                 <<[pair |-> i, r |-> TaskResult(parsed.value, scores[i])]>>]
               /\ UNCHANGED batch_pc
    /\ UNCHANGED <<duration_strings, scores, global_payrate, bonus_payrate, bonus_enabled,
                   overflow_checks, next_result, total_seconds, total_earnings, total_score,
                   fail_count, bonus_tasks_count, batch_ret, non_batch_vars>>

\* the map is complete; let mut total_seconds = 0u64; ...
StartReduce ==
    /\ batch_pc = "map"
    /\ Pending = {}
    /\ next_result' = 1
    /\ total_seconds' = WZero
    /\ total_earnings' = FZero
    /\ total_score' = FZero
    /\ fail_count' = 0
    /\ bonus_tasks_count' = 0
    /\ batch_pc' = "reduce"
    /\ UNCHANGED <<duration_strings, scores, global_payrate, bonus_payrate, bonus_enabled,
                   overflow_checks, results, batch_ret, non_batch_vars>>

\* one iteration of `for result in results`
ReduceStep ==
    /\ batch_pc = "reduce"
    /\ next_result <= Len(results)
    /\ LET result == results[next_result][1].r
       IN /\ total_seconds' = WAdd(total_seconds, result.duration_seconds)
          /\ total_earnings' = FAdd(total_earnings, result.earnings)
          /\ total_score' = FAdd(total_score, result.score)
          /\ fail_count' = IF result.is_fail THEN fail_count + 1 ELSE fail_count
          /\ bonus_tasks_count' =
                IF result.is_bonus THEN bonus_tasks_count + 1 ELSE bonus_tasks_count
    /\ next_result' = next_result + 1
    /\ UNCHANGED <<duration_strings, scores, global_payrate, bonus_payrate, bonus_enabled,
                   overflow_checks, batch_pc, results, batch_ret, non_batch_vars>>

\* the result dictionary
Aggregate(seconds_sum, earnings_sum, score_sum, fails, bonuses, task_count) ==
    [total_seconds |-> seconds_sum,
     total_earnings |-> earnings_sum,
     average_score |-> IF task_count > 0 THEN FDiv(score_sum, FFromInt(task_count))
                       ELSE FZero,
     fail_count |-> fails,
     bonus_tasks_count |-> bonuses,
     task_count |-> task_count,
     fail_rate |-> IF task_count > 0
                   THEN FMul(FDiv(FFromInt(fails), FFromInt(task_count)), F100)
                   ELSE FZero]

\* result_dict.set_item(..)?; ...; Ok(result_dict.into())
ReturnAggregate ==
    /\ batch_pc = "reduce"
    /\ next_result > Len(results)
    /\ batch_ret' = <<Aggregate(total_seconds, total_earnings, total_score, fail_count,
                                bonus_tasks_count, Len(duration_strings))>>
    /\ batch_pc' = "returned"
    /\ UNCHANGED <<duration_strings, scores, global_payrate, bonus_payrate, bonus_enabled,
                   overflow_checks, results, next_result, total_seconds, total_earnings,
                   total_score, fail_count, bonus_tasks_count, non_batch_vars>>

BatchNext ==
    \/ RaiseMismatch
    \/ ReturnEmpty
    \/ StartMap
    \/ \E i \in 1..MaxTasks : MapTask(i)
    \/ StartReduce
    \/ ReduceStep
    \/ ReturnAggregate


\* ------------------------------------------------------------------------
\* parse_time_to_seconds_batch
\* ------------------------------------------------------------------------
\* the fields tried: empty, one, two and three digits, a letter, a sign, and a
\* decimal digit that is not ASCII
FieldTexts ==
    {<<>>, <<"7">>, <<"0", "0">>, <<"5", "9">>, <<"1", "0", "0">>, <<"x">>,
     <<"+", "5">>, <<"U0663", "1">>}

RECURSIVE JoinColon(_)
JoinColon(fields) ==
    IF Len(fields) = 1 THEN fields[1]
    ELSE fields[1] \o <<":">> \o JoinColon(Tail(fields))

\* the time strings tried: one to MaxFields fields joined by colons
TimeTexts == {JoinColon(fields) : fields \in UNION {[1..k -> FieldTexts] : k \in 1..MaxFields}}

ParseIdle ==
    /\ time_strings = <<>>
    /\ parse_pc = "idle"
    /\ seconds = <<>>

\* a call with one string tried, alone or followed by a second one
ParseStart ==
    /\ \E s \in TimeTexts,
          rest \in {<<>>, <<Text0100>>, <<TextBadHour>>, <<TextHugeBadMinute>>} :
          time_strings = <<s>> \o rest
    /\ parse_pc = "map"
    /\ seconds = [i \in 1..Len(time_strings) |-> <<>>]

\* the closure of the parallel map on element i; its three fields have at
\* most two digits each, so the u32 arithmetic stays in range
ParseOne(i) ==
    /\ parse_pc = "map"
    /\ i \in 1..Len(time_strings)
    /\ seconds[i] = <<>>
    /\ seconds' = [seconds EXCEPT ![i] = <<parse_time_to_seconds(time_strings[i]).value>>]
    /\ UNCHANGED <<time_strings, parse_pc, non_parse_vars>>

\* .collect(); Ok(results)
ParseReturn ==
    /\ parse_pc = "map"
    /\ \A i \in 1..Len(time_strings) : seconds[i] # <<>>
    /\ parse_pc' = "returned"
    /\ UNCHANGED <<time_strings, seconds, non_parse_vars>>

ParseNext ==
    \/ \E i \in 1..2 : ParseOne(i)
    \/ ParseReturn

\* ------------------------------------------------------------------------
\* calculate_correlation_coefficient and calculate_batch_correlations
\* ------------------------------------------------------------------------
RECURSIVE Products(_, _)
\* x.iter().zip(y.iter()).map(|(&a, &b)| a * b)
Products(x, y) ==
    IF x = <<>> \/ y = <<>> THEN <<>>
    ELSE <<FMul(Head(x), Head(y))>> \o Products(Tail(x), Tail(y))

calculate_correlation_coefficient(x, y) ==
    IF Len(x) # Len(y) \/ Len(x) < 2 THEN FZero
    ELSE LET n == FFromInt(Len(x))
             sum_x == FSum(x)
             sum_y == FSum(y)
             sum_xy == FSum(Products(x, y))
             sum_x_sq == FSum(Products(x, x))
             sum_y_sq == FSum(Products(y, y))
             numerator == FSub(FMul(n, sum_xy), FMul(sum_x, sum_y))
             denominator == FSqrt(FMul(FSub(FMul(n, sum_x_sq), FMul(sum_x, sum_x)),
                                       FSub(FMul(n, sum_y_sq), FMul(sum_y, sum_y))))
         IN IF FLt(FAbs(denominator), FEpsilon)
            THEN FZero
            ELSE FDiv(numerator, denominator)

\* the variable names tried
NameTexts == {<<"a">>, <<"b">>, <<"a", "_", "b">>, <<"b", "_", "a">>}

\* the samples tried
SampleTexts ==
    {<<FFromInt(1), FFromInt(2), FFromInt(4)>>, <<FFromInt(3), FFromInt(1), FFromInt(2)>>,
     <<FFromInt(5), FFromInt(5), FFromInt(5)>>}

\* every order in which the elements of S can be enumerated
Orders(S) == {p \in [1..Cardinality(S) -> S] : \A i, j \in DOMAIN p : p[i] = p[j] => i = j}

CorrIdle ==
    /\ data_dict = <<>>
    /\ corr_pc = "idle"
    /\ data_map = <<>>
    /\ variables = <<>>
    /\ correlations = <<>>
    /\ corr_ret = <<>>
    /\ corr_prev = <<>>

\* a call with a dictionary of up to MaxVars names
CorrStart ==
    /\ \E names \in SUBSET NameTexts :
          /\ Cardinality(names) <= MaxVars
          /\ data_dict \in [names -> SampleTexts]
    /\ corr_pc = "entry"
    /\ data_map = <<>>
    /\ variables = <<>>
    /\ correlations = <<>>
    /\ corr_ret = <<>>
    /\ corr_prev = <<>>

\* for (key, value) in data_dict.iter() { ... data_map.insert(key_str, values); }
Extract ==
    /\ corr_pc = "entry"
    /\ data_map' = data_dict
    /\ corr_pc' = "extracted"
    /\ UNCHANGED <<data_dict, variables, correlations, corr_ret, corr_prev, non_corr_vars>>

\* the orders in which HashMap::keys() can yield the keys: the standard
\* hasher is seeded afresh for every map, so any order
KeyOrders(map) == Orders(DOMAIN map)

\* let variables: Vec<String> = data_map.keys().cloned().collect();
CollectKeys ==
    /\ corr_pc = "extracted"
    /\ variables' \in KeyOrders(data_map)
    /\ corr_pc' = "keys"
    /\ UNCHANGED <<data_dict, data_map, correlations, corr_ret, corr_prev, non_corr_vars>>

RECURSIVE PairsFrom(_, _, _, _)
\* for i in 0..n_vars { for j in (i + 1)..n_vars { ... correlations.push(..) } }
PairsFrom(map, vs, i, j) ==
    IF i > Len(vs) THEN <<>>
    ELSE IF j > Len(vs) THEN PairsFrom(map, vs, i + 1, i + 2)
    ELSE <<[var1 |-> vs[i], var2 |-> vs[j],
            correlation |-> calculate_correlation_coefficient(map[vs[i]], map[vs[j]])]>>
         \o PairsFrom(map, vs, i, j + 1)

ComputePairs ==
    /\ corr_pc = "keys"
    /\ correlations' = PairsFrom(data_map, variables, 1, 2)
    /\ corr_pc' = "pairs"
    /\ UNCHANGED <<data_dict, data_map, variables, corr_ret, corr_prev, non_corr_vars>>

\* format!("{}_{}", var1, var2)
PairKey(var1, var2) == var1 \o <<"_">> \o var2

\* for ((var1, var2), corr) in correlations { result.set_item(key, corr)?; }
\* a later set_item of the same key replaces the earlier value
ResultDict(pairs) ==
    [key \in {PairKey(pairs[k].var1, pairs[k].var2) : k \in 1..Len(pairs)} |->
        LET last == CHOOSE k \in 1..Len(pairs) :
                        /\ PairKey(pairs[k].var1, pairs[k].var2) = key
                        /\ \A l \in (k + 1)..Len(pairs) :
                              PairKey(pairs[l].var1, pairs[l].var2) # key
        IN pairs[last].correlation]

BuildDict ==
    /\ corr_pc = "pairs"
    /\ corr_ret' = <<ResultDict(correlations)>>
    /\ corr_pc' = "returned"
    /\ UNCHANGED <<data_dict, data_map, variables, correlations, corr_prev, non_corr_vars>>

\* the caller keeps the dictionary returned and calls again with the same
\* argument
CallAgain ==
    /\ corr_pc = "returned"
    /\ corr_prev = <<>>
    /\ corr_prev' = corr_ret
    /\ corr_pc' = "entry"
    /\ data_map' = <<>>
    /\ variables' = <<>>
    /\ correlations' = <<>>
    /\ corr_ret' = <<>>
    /\ UNCHANGED <<data_dict, non_corr_vars>>

CorrNext ==
    \/ Extract
    \/ CollectKeys
    \/ ComputePairs
    \/ BuildDict
    \/ CallAgain

\* ------------------------------------------------------------------------
\* The statistical entry points on one or two samples
\* ------------------------------------------------------------------------
FGt(a, b) == ~IsNaN(a) /\ ~IsNaN(b) /\ FCmp(a, b) > 0

\* the f64 nearest to the decimal literal num / den, for num and den that
\* are f64 themselves
FLit(num, den) == FDiv(FFromInt(num), FFromInt(den))

calculate_mean(data) ==
    IF data = <<>> THEN FZero ELSE FDiv(FSum(data), FFromInt(Len(data)))

\* data.iter().map(|&x| (x - mean).powi(2))
SquaredDeviations(data, mean) ==
    [i \in 1..Len(data) |-> FMul(FSub(data[i], mean), FSub(data[i], mean))]

\* (variant) no early return for a sample of fewer than 2 elements
calculate_std_dev_unguarded(data) ==
    LET mean == calculate_mean(data)
        variance == FDiv(FSum(SquaredDeviations(data, mean)), FFromInt(Len(data) - 1))
    IN FSqrt(variance)

calculate_std_dev(data) ==
    IF Len(data) < 2 THEN FZero
    ELSE LET mean == calculate_mean(data)
             variance == FDiv(FSum(SquaredDeviations(data, mean)),
                              FFromInt(Len(data) - 1))
         IN FSqrt(variance)

\* the degrees of freedom above which the normal table is used
NormalDf == 30

\* (variant) the table is chosen by the sample size, not by the degrees of
\* freedom
TValueBySize(n, confidence_level) ==
    IF FGt(FFromInt(n), FFromInt(NormalDf))
    THEN IF FGe(confidence_level, FLit(99, 100)) THEN FLit(2576, 1000)
         ELSE IF FGe(confidence_level, FLit(95, 100)) THEN FLit(1960, 1000)
         ELSE IF FGe(confidence_level, FLit(90, 100)) THEN FLit(1645, 1000)
         ELSE FLit(1960, 1000)
    ELSE IF FGe(confidence_level, FLit(99, 100)) THEN FFromInt(3)
         ELSE IF FGe(confidence_level, FLit(95, 100)) THEN FLit(25, 10)
         ELSE IF FGe(confidence_level, FLit(90, 100)) THEN FFromInt(2)
         ELSE FLit(25, 10)

\* t_value of calculate_confidence_interval for a sample of n elements
TValue(n, confidence_level) ==
    LET degrees_freedom == FSub(FFromInt(n), FFromInt(1))
    IN IF FGt(degrees_freedom, FFromInt(NormalDf))
       THEN IF FGe(confidence_level, FLit(99, 100)) THEN FLit(2576, 1000)
            ELSE IF FGe(confidence_level, FLit(95, 100)) THEN FLit(1960, 1000)
            ELSE IF FGe(confidence_level, FLit(90, 100)) THEN FLit(1645, 1000)
            ELSE FLit(1960, 1000)
       ELSE IF FGe(confidence_level, FLit(99, 100)) THEN FFromInt(3)
            ELSE IF FGe(confidence_level, FLit(95, 100)) THEN FLit(25, 10)
            ELSE IF FGe(confidence_level, FLit(90, 100)) THEN FFromInt(2)
            ELSE FLit(25, 10)

calculate_confidence_interval(data, confidence_level) ==
    IF Len(data) < 2 THEN <<FZero, FZero>>
    ELSE LET mean == calculate_mean(data)
             std_dev == calculate_std_dev(data)
             n == FFromInt(Len(data))
             t_value == TValue(Len(data), confidence_level)
             margin_error == FMul(t_value, FDiv(std_dev, FSqrt(n)))
         IN <<FSub(mean, margin_error), FAdd(mean, margin_error)>>

RECURSIVE SortInsert(_, _)
\* v put into the ordered s, after the elements that are not greater
SortInsert(s, v) ==
    IF s = <<>> THEN <<v>>
    ELSE IF FLt(v, Head(s)) THEN <<v>> \o s
    ELSE <<Head(s)>> \o SortInsert(Tail(s), v)

RECURSIVE SortByPartialCmp(_)
\* sort_by(|a, b| a.partial_cmp(b).unwrap_or(Equal)), a stable sort, on a
\* sample of numbers
SortByPartialCmp(data) ==
    IF data = <<>> THEN <<>>
    ELSE SortInsert(SortByPartialCmp(SubSeq(data, 1, Len(data) - 1)), data[Len(data)])

\* (variant) the element after the one asked for
GetOrNext(sorted_data, idx, default) ==
    IF idx + 1 < Len(sorted_data) THEN sorted_data[idx + 2] ELSE default

\* sorted_data.get(idx).copied().unwrap_or(default), idx counted from 0
GetOr(sorted_data, idx, default) ==
    IF idx < Len(sorted_data) THEN sorted_data[idx + 1] ELSE default

\* the median of calculate_statistical_summary and calculate_stats_parallel
Median(sorted_data) ==
    LET n == Len(sorted_data)
    IN IF n % 2 = 0
       THEN FDiv(FAdd(sorted_data[n \div 2], sorted_data[(n \div 2) + 1]), FFromInt(2))
       ELSE sorted_data[(n \div 2) + 1]

\* the dictionary calculate_statistical_summary returns; <<>> is the empty one
calculate_statistical_summary(data) ==
    IF data = <<>> THEN <<>>
    ELSE LET sorted_data == SortByPartialCmp(data)
             n == Len(sorted_data)
             min_val == sorted_data[1]
             max_val == sorted_data[n]
             q1_idx == n \div 4
             q3_idx == (3 * n) \div 4
             q1 == GetOr(sorted_data, q1_idx, min_val)
             q3 == GetOr(sorted_data, q3_idx, max_val)
             iqr == FSub(q3, q1)
             lower_fence == FSub(q1, FMul(FLit(15, 10), iqr))
             upper_fence == FAdd(q3, FMul(FLit(15, 10), iqr))
             outliers == SelectSeq(data, LAMBDA x : FLt(x, lower_fence) \/ FGt(x, upper_fence))
         IN [mean |-> calculate_mean(data),
             median |-> Median(sorted_data),
             std_dev |-> calculate_std_dev(data),
             min |-> min_val,
             max |-> max_val,
             q1 |-> q1,
             q3 |-> q3,
             iqr |-> iqr,
             outlier_count |-> Len(outliers),
             outliers |-> outliers,
             sample_size |-> n]

\* (variant) the last window is left out
calculate_moving_average_short(data, window_size) ==
    IF Len(data) < window_size \/ window_size = 0 THEN <<>>
    ELSE [i \in 1..(Len(data) - window_size) |->
              calculate_mean(SubSeq(data, i, i + window_size - 1))]

\* the list calculate_moving_average returns
calculate_moving_average(data, window_size) ==
    IF Len(data) < window_size \/ window_size = 0 THEN <<>>
    ELSE [i \in 1..(Len(data) - window_size + 1) |->
              calculate_mean(SubSeq(data, i, i + window_size - 1))]

\* ------------------------------------------------------------------------
\* calculate_aggregated_metrics and its parallel reductions
\* ------------------------------------------------------------------------
RECURSIVE ParSum(_)
\* par_iter().sum::<f64>(): a piece of the sample is summed by a left fold,
\* or split at its middle into two pieces that are summed apart and then
\* added; the scheduling decides which.  The set of the possible sums.
ParSum(s) ==
    {FSum(s)} \cup
        (IF Len(s) < 2 THEN {}
         ELSE LET mid == Len(s) \div 2
              IN {FAdd(a, b) : a \in ParSum(SubSeq(s, 1, mid)),
                               b \in ParSum(SubSeq(s, mid + 1, Len(s)))})

\* the possible results of calculate_stats_parallel
calculate_stats_parallel(data) ==
    IF data = <<>>
    THEN {[mean |-> FZero, median |-> FZero, std_dev |-> FZero, min |-> FZero,
           max |-> FZero, sum |-> FZero]}
    ELSE LET sorted_data == SortByPartialCmp(data)
             len == FFromInt(Len(data))
             divisor == FFromInt(IF Len(data) - 1 > 1 THEN Len(data) - 1 ELSE 1)
         IN UNION {{[mean |-> FDiv(sum, len),
                     median |-> Median(sorted_data),
                     std_dev |-> FSqrt(FDiv(sq, divisor)),
                     min |-> sorted_data[1],
                     max |-> sorted_data[Len(sorted_data)],
                     sum |-> sum]
                    : sq \in ParSum(SquaredDeviations(data, FDiv(sum, len)))}
                   : sum \in ParSum(data)}

\* f64::min: the other operand when one is NaN
FMin(a, b) == IF IsNaN(a) THEN b ELSE IF IsNaN(b) THEN a ELSE IF FLt(b, a) THEN b ELSE a

\* durations zipped with time_limits, each pair mapped to its usage
Usage(durations, time_limits) ==
    [i \in 1..(IF Len(durations) < Len(time_limits) THEN Len(durations) ELSE Len(time_limits)) |->
        IF FGt(time_limits[i], FZero) THEN FDiv(durations[i], time_limits[i]) ELSE FZero]

\* (variant) the guard lets a zero total duration through
EarningsPerHourUnguarded(total_earnings_sum, total_duration) ==
    IF FGe(total_duration, FZero) THEN FDiv(total_earnings_sum, total_duration) ELSE FZero

EarningsPerHour(total_earnings_sum, total_duration) ==
    IF FGt(total_duration, FZero) THEN FDiv(total_earnings_sum, total_duration) ELSE FZero

\* the possible results of calculate_efficiency_metrics
calculate_efficiency_metrics(durations, score_data, earnings, time_limits) ==
    IF durations = <<>>
    THEN {[earnings_per_hour |-> FZero, quality_efficiency |-> FZero,
           time_efficiency |-> FZero]}
    ELSE LET len == FFromInt(Len(durations))
         IN {[earnings_per_hour |-> EarningsPerHour(total_earnings_sum, total_duration),
              quality_efficiency |->
                  IF FGt(total_duration, FZero)
                  THEN FDiv(FDiv(score_sum, FFromInt(Len(score_data))),
                            FDiv(total_duration, len))
                  ELSE FZero,
              time_efficiency |->
                  IF time_limits # <<>>
                  THEN FSub(FFromInt(1), FMin(FDiv(usage_sum, len), FFromInt(1)))
                  ELSE FZero]
             : total_duration \in ParSum(durations),
               total_earnings_sum \in ParSum(earnings),
               score_sum \in ParSum(score_data),
               usage_sum \in ParSum(Usage(durations, time_limits))}

\* the possible dictionaries calculate_aggregated_metrics returns; <<>> is
\* the empty one
calculate_aggregated_metrics(durations, score_data, earnings, time_limits) ==
    IF durations = <<>> THEN {<<>>}
    ELSE {[duration |-> [mean |-> d.mean, median |-> d.median, std_dev |-> d.std_dev,
                         min |-> d.min, max |-> d.max],
           score |-> [mean |-> s.mean, median |-> s.median, std_dev |-> s.std_dev],
           earnings |-> [total |-> e.sum, mean |-> e.mean, median |-> e.median],
           efficiency |-> m]
          : d \in calculate_stats_parallel(durations),
            s \in calculate_stats_parallel(score_data),
            e \in calculate_stats_parallel(earnings),
            m \in calculate_efficiency_metrics(durations, score_data, earnings, time_limits)}

\* ------------------------------------------------------------------------
\* One call of a statistical entry point
\* ------------------------------------------------------------------------
\* 1.0, 2.0, ..., 10.0
OneToTen == [i \in 1..10 |-> FFromInt(i)]

\* the samples tried: the short ones over six values, 1.0 .. 10.0, and three
\* around the size at which the table of critical values changes
Samples ==
    SeqsUpTo({FFromInt(-1), FZero, FFromInt(1), FFromInt(2), FFromInt(3), FLit(1, 10)},
             MaxSample)
        \cup {OneToTen}
        \cup {[i \in 1..n |-> FFromInt(i % 3)] : n \in NormalDf..(NormalDf + 2)}

\* no entry point called
NoCall ==
    [fn |-> "none", data |-> <<>>, x_data |-> <<>>, y_data |-> <<>>, window_size |-> 0,
     confidence_level |-> FZero, durations |-> <<>>, scores |-> <<>>, earnings |-> <<>>,
     time_limits |-> <<>>]

StatIdle ==
    /\ stat_call = NoCall
    /\ stat_ret = <<>>

CallCorrelation ==
    /\ stat_call = NoCall
    /\ \E x \in Samples, y \in SeqsUpTo({FFromInt(1), FLit(3, 10)}, MaxSample) :
        /\ stat_call' = [NoCall EXCEPT !.fn = "calculate_correlation", !.x_data = x,
                                       !.y_data = y]
        /\ stat_ret' = <<calculate_correlation_coefficient(x, y)>>
    /\ UNCHANGED non_stat_vars

CallConfidenceInterval ==
    /\ stat_call = NoCall
    /\ \E d \in Samples,
          level \in {FLit(99, 100), FLit(97, 100), FLit(95, 100), FLit(90, 100),
                     FLit(80, 100), FFromInt(1)} :
        /\ stat_call' = [NoCall EXCEPT !.fn = "calculate_confidence_interval", !.data = d,
                                       !.confidence_level = level]
        /\ stat_ret' = <<calculate_confidence_interval(d, level)>>
    /\ UNCHANGED non_stat_vars

CallStatisticalSummary ==
    /\ stat_call = NoCall
    /\ \E d \in Samples :
        /\ stat_call' = [NoCall EXCEPT !.fn = "calculate_statistical_summary", !.data = d]
        /\ stat_ret' = <<calculate_statistical_summary(d)>>
    /\ UNCHANGED non_stat_vars

CallMovingAverage ==
    /\ stat_call = NoCall
    /\ \E d \in Samples, w \in 0..(MaxSample + 1) :
        /\ stat_call' = [NoCall EXCEPT !.fn = "calculate_moving_average", !.data = d,
                                       !.window_size = w]
        /\ stat_ret' = <<calculate_moving_average(d, w)>>
    /\ UNCHANGED non_stat_vars

CallAggregatedMetrics ==
    /\ stat_call = NoCall
    /\ \E du \in SeqsUpTo({FFromInt(-1), FZero, FFromInt(3), FLit(1, 10)}, MaxSample),
          sc \in {<<>>, <<FFromInt(3)>>, <<FFromInt(1), FFromInt(5)>>},
          ea \in SeqsUpTo({FFromInt(3), FLit(1, 10)}, MaxSample - 1),
          tl \in {<<>>, <<FZero, FFromInt(2)>>} :
        /\ stat_call' = [NoCall EXCEPT !.fn = "calculate_aggregated_metrics",
                                       !.durations = du, !.scores = sc, !.earnings = ea,
                                       !.time_limits = tl]
        /\ \E result \in calculate_aggregated_metrics(du, sc, ea, tl) :
            stat_ret' = <<result>>
    /\ UNCHANGED non_stat_vars

StatNext ==
    \/ CallCorrelation
    \/ CallConfidenceInterval
    \/ CallStatisticalSummary
    \/ CallMovingAverage
    \/ CallAggregatedMetrics

\* ------------------------------------------------------------------------
\* Specifications: one entry point is called, the others stay idle
\* ------------------------------------------------------------------------
TimerIdle ==
    /\ timer_count = 0
    /\ duration_seconds = 0
    /\ main_pc = "not_called"
    /\ shared = FALSE
    /\ completed_count = 0
    /\ count_locked = FALSE
    /\ precision_errors = <<>>
    /\ errors_locked = FALSE
    /\ handles = 0
    /\ joined = 0
    /\ w_pc = [w \in Workers |-> "unspawned"]
    /\ w_elapsed = [w \in Workers |-> 0]
    /\ w_error = [w \in Workers |-> FZero]
    /\ w_count = [w \in Workers |-> 0]
    /\ completed_timers = 0
    /\ report = <<>>

TimerInit == TimerStart /\ BatchIdle /\ ParseIdle /\ CorrIdle /\ StatIdle

TimerSpec == TimerInit /\ [][TimerNext]_vars

BatchInit == BatchStart /\ TimerIdle /\ ParseIdle /\ CorrIdle /\ StatIdle

BatchSpec == BatchInit /\ [][BatchNext]_vars

ParseInit == ParseStart /\ TimerIdle /\ BatchIdle /\ CorrIdle /\ StatIdle

ParseSpec == ParseInit /\ [][ParseNext]_vars

CorrInit == CorrStart /\ TimerIdle /\ BatchIdle /\ ParseIdle /\ StatIdle

CorrSpec == CorrInit /\ [][CorrNext]_vars

StatInit == StatIdle /\ TimerIdle /\ BatchIdle /\ ParseIdle /\ CorrIdle

StatSpec == StatInit /\ [][StatNext]_vars



\* ------------------------------------------------------------------------
\* The task batch processor as a function of its arguments
\* ------------------------------------------------------------------------
RECURSIVE WSum(_)
WSum(s) == IF s = <<>> THEN WZero ELSE WAdd(WSum(SubSeq(s, 1, Len(s) - 1)), s[Len(s)])

\* the dictionary process_tasks_batch returns for a non-empty batch when the
\* results are aggregated in the order of the arguments
BatchAggregate(durations, scs) ==
    LET n == Len(durations)
        rs == [i \in 1..n |-> TaskResult(parse_time_string_fast(durations[i]).value, scs[i])]
    IN Aggregate(WSum([i \in 1..n |-> rs[i].duration_seconds]),
                 FSum([i \in 1..n |-> rs[i].earnings]),
                 FSum([i \in 1..n |-> rs[i].score]),
                 Cardinality({i \in 1..n : rs[i].is_fail}),
                 Cardinality({i \in 1..n : rs[i].is_bonus}),
                 n)

Permuted(s, p) == [i \in 1..Len(s) |-> s[p[i]]]

\* ------------------------------------------------------------------------
\* Claims
\* ------------------------------------------------------------------------

\* C1: for every timer_count > 0 and every interleaving of the worker
\* threads, the report returned has completed_timers = timer_count.
C1_CompletedEqualsTimerCount ==
    (main_pc = "reported" /\ timer_count > 0) =>
        report[1].completed_timers = timer_count

C1_Witness ==
    /\ main_pc = "reported"
    /\ timer_count >= 2
    /\ report[1].completed_timers = timer_count

\* C2: the counter and the error list are read for the report only after all
\* timer_count workers have been joined; the list then holds exactly
\* timer_count entries, each >= 0, and the reported average is >= 0.
C2_ReportAfterJoinBarrier ==
    (timer_count > 0 /\ main_pc \in {"counted", "reported"}) =>
        /\ joined = timer_count
        /\ \A w \in 1..timer_count : w_pc[w] = "done"
        /\ Len(precision_errors) = timer_count
        /\ \A k \in 1..Len(precision_errors) : FGe(precision_errors[k], FZero)
        /\ main_pc = "reported" => FGe(report[1].average_precision, FZero)

C2_Witness ==
    /\ main_pc = "reported"
    /\ timer_count >= 2
    /\ Len(precision_errors) = timer_count
    /\ FLt(FZero, report[1].average_precision)

\* C3: a call with timer_count = 0 returns the zero report, spawns no worker
\* and neither creates nor touches the shared counter and error list.
C3_ZeroShortCircuit ==
    timer_count = 0 =>
        /\ main_pc \in {"idle", "reported"}
        /\ handles = 0
        /\ \A w \in Workers : w_pc[w] = "unspawned"
        /\ ~shared
        /\ completed_count = 0 /\ ~count_locked
        /\ precision_errors = <<>> /\ ~errors_locked
        /\ main_pc = "reported" =>
              /\ report[1].completed_timers = 0
              /\ report[1].total_elapsed = FZero
              /\ report[1].average_precision = FZero

C3_Witness ==
    /\ timer_count = 0
    /\ main_pc = "reported"
    /\ report = <<ZeroReport>>

\* C4: with len(duration_strings) # len(scores) the call raises the
\* argument-mismatch error, and nothing is parsed, classified or aggregated.
C4_MismatchFailsFast ==
    Len(duration_strings) # Len(scores) =>
        /\ batch_pc \in {"entry", "raised"}
        /\ batch_pc = "entry" => ENABLED RaiseMismatch
        /\ results = <<>>
        /\ next_result = 0
        /\ total_seconds = WZero /\ total_earnings = FZero /\ total_score = FZero
        /\ fail_count = 0 /\ bonus_tasks_count = 0
        /\ batch_ret = <<>>

C4_Witness ==
    /\ Len(duration_strings) # Len(scores)
    /\ Len(duration_strings) > 0 /\ Len(scores) > 0
    /\ batch_pc = "raised"

\* C5 (as claimed): the aggregate returned is the same for every permutation
\* of the records.
C5_PermutationInvariant ==
    (batch_pc = "returned" /\ Len(duration_strings) > 0) =>
        \A p \in Orders(1..Len(duration_strings)) :
            BatchAggregate(Permuted(duration_strings, p), Permuted(scores, p)) = batch_ret[1]

\* C5 (amended): the aggregate returned does not depend on the order in which
\* the parallel map processes the records: it is the aggregate of the results
\* taken in the order of the arguments.  Under a permutation of the records
\* total_seconds, fail_count, bonus_tasks_count, task_count and fail_rate are
\* the same.
C5_ScheduleIndependent ==
    (batch_pc = "returned" /\ Len(duration_strings) > 0) =>
        /\ batch_ret[1] = BatchAggregate(duration_strings, scores)
        /\ \A p \in Orders(1..Len(duration_strings)) :
              LET other == BatchAggregate(Permuted(duration_strings, p), Permuted(scores, p))
              IN /\ other.total_seconds = batch_ret[1].total_seconds
                 /\ other.fail_count = batch_ret[1].fail_count
                 /\ other.bonus_tasks_count = batch_ret[1].bonus_tasks_count
                 /\ other.task_count = batch_ret[1].task_count
                 /\ other.fail_rate = batch_ret[1].fail_rate

\* a batch has been aggregated whose total_earnings another order of the same
\* records would round differently
C5_Witness ==
    /\ batch_pc = "returned"
    /\ Len(duration_strings) = 3
    /\ batch_ret[1] = BatchAggregate(duration_strings, scores)
    /\ \E p \in Orders(1..3) :
          BatchAggregate(Permuted(duration_strings, p), Permuted(scores, p)).total_earnings
              # batch_ret[1].total_earnings

\* C6: a record is a fail iff score < 3.0 and a bonus task iff bonus_enabled
\* and score >= 3.0; it is paid (duration_seconds / 3600) * bonus_rate if it
\* is a bonus task and * global_rate otherwise; fail_count,
\* bonus_tasks_count and total_earnings are the counts and the sum over all
\* records; one record "01:00:00" with score 5.0, rates 10/20 and the bonus
\* enabled gives 3600 seconds, earnings 20 and no fail.
C6_ClassifyAndPay ==
    (batch_pc = "returned" /\ Len(duration_strings) > 0) =>
        LET n == Len(duration_strings)
            ret == batch_ret[1]
            fails == {i \in 1..n : FCmp(scores[i], FFromInt(3)) < 0}
            bonus == {i \in 1..n : bonus_enabled /\ FCmp(scores[i], FFromInt(3)) >= 0}
            hours(i) == FDiv(FFromWide(results[i][1].r.duration_seconds), FFromInt(3600))
            pay == [i \in 1..n |->
                       FMul(hours(i), IF i \in bonus THEN bonus_payrate ELSE global_payrate)]
        IN /\ \A i \in 1..n : results[i][1].r.is_fail <=> i \in fails
           /\ \A i \in 1..n : results[i][1].r.is_bonus <=> i \in bonus
           /\ \A i \in 1..n : ~(results[i][1].r.is_fail /\ results[i][1].r.is_bonus)
           /\ ret.fail_count = Cardinality(fails)
           /\ ret.bonus_tasks_count = Cardinality(bonus)
           /\ ret.total_earnings = FSum(pay)
           /\ (duration_strings = <<Text0100>> /\ scores = <<FFromInt(5)>> /\ bonus_enabled) =>
                 /\ ret.total_seconds = Wide(0, 3600)
                 /\ ret.total_earnings = FFromInt(20)
                 /\ ret.fail_count = 0

C6_Witness ==
    /\ batch_pc = "returned"
    /\ Len(duration_strings) >= 2
    /\ batch_ret[1].fail_count > 0
    /\ batch_ret[1].bonus_tasks_count > 0

\* C7: with vectors of equal length the call never fails because of the text
\* of a duration string: it returns an aggregate in which every record counts
\* in task_count, whatever its duration string.
C7_NeverFailsOnDurationText ==
    Len(duration_strings) = Len(scores) =>
        /\ batch_pc # "panicked"
        /\ batch_pc = "returned" => batch_ret[1].task_count = Len(duration_strings)

\* --- helpers of the claims about the parsers ---

AllAsciiDigits(field) == field # <<>> /\ \A k \in 1..Len(field) : IsAsciiDigit(field[k])

RECURSIVE DecimalValue(_)
DecimalValue(field) ==
    IF field = <<>> THEN 0
    ELSE 10 * DecimalValue(SubSeq(field, 1, Len(field) - 1)) + DigitVal(field[Len(field)])

\* three colon-separated integer fields H:M:S
ThreeIntegerFields(text) ==
    /\ Len(Split(text)) = 3
    /\ \A k \in 1..3 : AllAsciiDigits(Split(text)[k])

\* H{1,2}:MM:SS
ClockShaped(text) ==
    /\ ThreeIntegerFields(text)
    /\ Len(Split(text)[1]) \in {1, 2}
    /\ Len(Split(text)[2]) = 2
    /\ Len(Split(text)[3]) = 2

\* H * 3600 + M * 60 + S
HmsSeconds(text) ==
    DecimalValue(Split(text)[1]) * 3600 + DecimalValue(Split(text)[2]) * 60
        + DecimalValue(Split(text)[3])

C9_AllPairsOnceInAnyOrder ==
    corr_pc = "returned" =>
        LET names == DOMAIN data_dict
            n == Cardinality(names)
            dict == corr_ret[1]
        IN /\ Cardinality(DOMAIN dict) = (n * (n - 1)) \div 2
           /\ \A a, b \in names :
                 a # b => (PairKey(a, b) \in DOMAIN dict) # (PairKey(b, a) \in DOMAIN dict)
           /\ \A a \in names : PairKey(a, a) \notin DOMAIN dict
           /\ \A order \in Orders(names) :
                 ResultDict(PairsFrom(data_dict, order, 1, 2)) = dict

\* C10: two calls with identical input return identical output.
C10_SameInputSameOutput ==
    (corr_pc = "returned" /\ corr_prev # <<>>) => corr_ret = corr_prev

\* --- helpers of the claims about the statistical entry points ---

\* the arithmetic mean of window: the f64 sum of its elements, in order,
\* divided by their number
WindowMean(window) == FDiv(FSum(window), FFromInt(Len(window)))

\* the output has expected_len elements and its i-th element is the mean of
\* the window_size elements of data from the i-th on
IsMovingAverage(out, data, window_size, expected_len) ==
    /\ Len(out) = expected_len
    /\ \A i \in 1..Len(out) :
          /\ i + window_size - 1 <= Len(data)
          /\ out[i] = WindowMean(SubSeq(data, i, i + window_size - 1))

\* C11 (as claimed): for every sample and every window size, 0 and sizes
\* larger than the sample included, calculate_moving_average returns
\* max(0, len(data) - window + 1) elements, the i-th the mean of
\* data[i .. i+window-1]; for window = 1 the output equals the input.
C11_MovingAverageAnyWindow ==
    stat_call.fn = "calculate_moving_average" =>
        LET data == stat_call.data
            window == stat_call.window_size
            len == Len(data) - window + 1
        IN /\ IsMovingAverage(stat_ret[1], data, window, IF len > 0 THEN len ELSE 0)
           /\ window = 1 => stat_ret[1] = data

\* C11 (amended): for every window size >= 1 the output has
\* max(0, len(data) - window + 1) elements, the i-th the mean of
\* data[i .. i+window-1], and for window = 1 it equals the input; for
\* window = 0 the output is empty.
C11_MovingAveragePositiveWindow ==
    stat_call.fn = "calculate_moving_average" =>
        LET data == stat_call.data
            window == stat_call.window_size
            len == Len(data) - window + 1
        IN /\ window >= 1 =>
                 IsMovingAverage(stat_ret[1], data, window, IF len > 0 THEN len ELSE 0)
           /\ window = 1 => stat_ret[1] = data
           /\ window = 0 => stat_ret[1] = <<>>

\* a window of two slides over three values that differ
C11_Witness ==
    /\ stat_call.fn = "calculate_moving_average"
    /\ stat_call.window_size = 2
    /\ stat_call.data = <<FFromInt(1), FFromInt(2), FLit(1, 10)>>
    /\ Len(stat_ret[1]) = 2
    /\ stat_ret[1][1] = FLit(3, 2)

\* the critical value of the claim: the row is the largest of 0.99, 0.95,
\* 0.90 that the level reaches, the default row below 0.90; the column is the
\* normal-approximation table or the coarser one
CriticalValue(normal, level) ==
    LET row == IF FGe(level, FLit(99, 100)) THEN 1
               ELSE IF FGe(level, FLit(95, 100)) THEN 2
               ELSE IF FGe(level, FLit(90, 100)) THEN 3
               ELSE 4
    IN IF normal
       THEN <<FLit(2576, 1000), FLit(1960, 1000), FLit(1645, 1000), FLit(1960, 1000)>>[row]
       ELSE <<FFromInt(3), FLit(25, 10), FFromInt(2), FLit(25, 10)>>[row]

\* mean -/+ critical * std_dev / sqrt(n), the margin being the product of
\* the critical value and the quotient
IntervalAround(data, critical) ==
    LET margin == FMul(critical, FDiv(calculate_std_dev(data), FSqrt(FFromInt(Len(data)))))
    IN <<FSub(calculate_mean(data), margin), FAdd(calculate_mean(data), margin)>>

\* C12 (as claimed): for a sample of n > 30 elements the interval is built
\* with the normal-approximation table, for 2 <= n <= 30 with the coarser
\* table; the interval is mean -/+ critical_value * std_dev / sqrt(n).
C12_TableBySampleSize ==
    (stat_call.fn = "calculate_confidence_interval" /\ Len(stat_call.data) >= 2) =>
        stat_ret[1] = IntervalAround(stat_call.data,
                          CriticalValue(Len(stat_call.data) > 30, stat_call.confidence_level))

\* C12 (amended): the normal-approximation table is used when the degrees
\* of freedom n - 1 exceed 30, that is for n > 31, and the coarser table for
\* 2 <= n <= 31.
C12_TableByDegreesOfFreedom ==
    (stat_call.fn = "calculate_confidence_interval" /\ Len(stat_call.data) >= 2) =>
        stat_ret[1] = IntervalAround(stat_call.data,
                          CriticalValue(Len(stat_call.data) - 1 > 30,
                                        stat_call.confidence_level))

\* a sample of 32 elements at level 0.95: the interval is built with 1.960
\* and differs from the one built with 2.5
C12_Witness ==
    /\ stat_call.fn = "calculate_confidence_interval"
    /\ Len(stat_call.data) = 32
    /\ stat_call.confidence_level = FLit(95, 100)
    /\ stat_ret[1] = IntervalAround(stat_call.data, FLit(1960, 1000))
    /\ stat_ret[1] # IntervalAround(stat_call.data, FLit(25, 10))
    /\ FLt(stat_ret[1][1], stat_ret[1][2])

\* the element of rank k, counted from 0, of the sample in increasing order:
\* at most k elements are smaller and more than k are not greater
OrderStatistic(data, k) ==
    CHOOSE v \in {data[i] : i \in 1..Len(data)} :
        /\ Cardinality({i \in 1..Len(data) : FLt(data[i], v)}) <= k
        /\ Cardinality({i \in 1..Len(data) : ~FGt(data[i], v)}) > k

\* C13: for a non-empty sample of n elements the summary reports
\* q1 = sorted[floor(n/4)] and q3 = sorted[floor(3n/4)], both indices inside
\* the sample, and median = the middle element for odd n, the average of
\* the two middle elements for even n; 1.0 .. 10.0 gives median 5.5, q1 3,
\* q3 8 and no outlier.
C13_QuartilesByTruncatedIndex ==
    (stat_call.fn = "calculate_statistical_summary" /\ stat_call.data # <<>>) =>
        \A data \in {stat_call.data} :
            LET n == Len(data)
                summary == stat_ret[1]
            IN /\ n \div 4 < n
               /\ (3 * n) \div 4 < n
               /\ summary.q1 = OrderStatistic(data, n \div 4)
               /\ summary.q3 = OrderStatistic(data, (3 * n) \div 4)
               /\ summary.median =
                      IF n % 2 = 1 THEN OrderStatistic(data, n \div 2)
                      ELSE FDiv(FAdd(OrderStatistic(data, (n \div 2) - 1),
                                     OrderStatistic(data, n \div 2)), FFromInt(2))
               /\ data = OneToTen =>
                      /\ summary.median = FLit(11, 2)
                      /\ summary.q1 = FFromInt(3)
                      /\ summary.q3 = FFromInt(8)
                      /\ summary.outlier_count = 0

\* the summary of 1.0 .. 10.0 has been returned
C13_Witness ==
    /\ stat_call.fn = "calculate_statistical_summary"
    /\ stat_call.data = OneToTen
    /\ stat_ret[1].sample_size = 10
    /\ stat_ret[1].q1 = FFromInt(3)
    /\ stat_ret[1].q3 = FFromInt(8)
    /\ stat_ret[1].median = FLit(11, 2)

RECURSIVE SumsInAnyGrouping(_)
\* the f64 sums of the elements of s taken in order, under every way of
\* grouping the additions
SumsInAnyGrouping(s) ==
    IF s = <<>> THEN {FZero}
    ELSE IF Len(s) = 1 THEN {s[1]}
    ELSE UNION {{FAdd(a, b) : a \in SumsInAnyGrouping(SubSeq(s, 1, k)),
                              b \in SumsInAnyGrouping(SubSeq(s, k + 1, Len(s)))}
                : k \in 1..(Len(s) - 1)}

C15_EmptyBatchAllZero ==
    (duration_strings = <<>> /\ scores = <<>>) =>
        /\ batch_pc \in {"idle", "entry", "returned"}
        /\ batch_pc = "returned" =>
              /\ Len(batch_ret) = 1
              /\ batch_ret[1].total_seconds = WZero
              /\ batch_ret[1].total_earnings = FZero
              /\ batch_ret[1].average_score = FZero
              /\ batch_ret[1].fail_count = 0
              /\ batch_ret[1].bonus_tasks_count = 0
              /\ batch_ret[1].task_count = 0
              /\ batch_ret[1].fail_rate = FZero

\* the call on two empty arrays has returned
C15_Witness ==
    /\ batch_pc = "returned"
    /\ duration_strings = <<>>
    /\ scores = <<>>
    /\ batch_ret # <<>>
    /\ batch_ret[1].task_count = 0

\* every element of the series equals the first
IsConstant(series) == \A i \in 1..Len(series) : series[i] = series[1]

\* C16: calculate_correlation_coefficient returns 0.0, never an error or an
\* undefined value, whenever the two inputs differ in length, have fewer
\* than 2 elements, or one of them is constant.
C16_DegenerateCorrelationIsZero ==
    stat_call.fn = "calculate_correlation" =>
        LET x == stat_call.x_data
            y == stat_call.y_data
        IN (Len(x) # Len(y) \/ Len(x) < 2 \/ IsConstant(x) \/ IsConstant(y)) =>
               stat_ret[1] = FZero

\* C17: for a sample of 0 or 1 elements calculate_std_dev returns 0.0 and
\* calculate_confidence_interval returns (0, 0), at every confidence level.
C17_ShortSampleIsZero ==
    /\ (stat_call.fn = "calculate_confidence_interval" /\ Len(stat_call.data) < 2) =>
           /\ stat_ret[1] = <<FZero, FZero>>
           /\ calculate_std_dev(stat_call.data) = FZero
    /\ (stat_call.fn = "calculate_statistical_summary" /\ Len(stat_call.data) = 1) =>
           stat_ret[1].std_dev = FZero

\* the interval of a one-element sample at level 0.99 has been returned
C17_Witness ==
    /\ stat_call.fn = "calculate_confidence_interval"
    /\ stat_call.data = <<FFromInt(3)>>
    /\ stat_call.confidence_level = FLit(99, 100)
    /\ stat_ret = <<<<FZero, FZero>>>>


\* the workers whose position is one of pcs
WorkersAt(pcs) == {w \in Workers : w_pc[w] \in pcs}

\* C18: every update of the shared counter and every append to the shared
\* error list happens under mutual exclusion: at most one worker holds the
\* counter lock and at most one the list lock, each lock is held exactly while
\* a worker is inside its block, and no increment and no append is lost: the
\* counter equals the number of workers past their increment and the list
\* holds one entry per worker past its append.
C18_MutualExclusion ==
    /\ Cardinality(WorkersAt({"count_locked", "count_loaded", "count_stored"})) <= 1
    /\ Cardinality(WorkersAt({"errors_locked", "errors_pushed"})) <= 1
    /\ count_locked <=> WorkersAt({"count_locked", "count_loaded", "count_stored"}) # {}
    /\ main_pc # "reported" =>
          (errors_locked <=> WorkersAt({"errors_locked", "errors_pushed"}) # {})
    /\ completed_count =
          Cardinality(WorkersAt({"count_stored", "count_released", "errors_locked",
                                 "errors_pushed", "done"}))
    /\ Len(precision_errors) = Cardinality(WorkersAt({"errors_pushed", "done"}))

C18_Witness ==
    \E v \in Workers : \E w \in Workers \ {v} :
        /\ w_pc[v] = "count_loaded"
        /\ w_pc[w] = "woke"
        /\ count_locked
        /\ \E u \in Workers \ {v, w} : w_pc[u] = "errors_locked" /\ errors_locked


\* the phase of the invocation: 0 Idle, 1 Running, 2 Joined, 3 Reported; an
\* invocation that has panicked is in none of them
Phase ==
    CASE main_pc = "idle" -> 0
      [] main_pc \in {"spawning", "joining"} -> 1
      [] main_pc \in {"joined", "counted"} -> 2
      [] main_pc = "reported" -> 3
      [] OTHER -> -1

\* C19: an invocation with timer_count > 0 is at every moment in one of the
\* phases Idle, Running, Joined, Reported, on its way to Reported: it is
\* Running only with the shared state set up, Joined only with all of its
\* workers joined, and it never steps back to an earlier phase.
C19_PhasesInOrderToReported ==
    /\ [](timer_count > 0 =>
            /\ Phase \in 0..3
            /\ Phase >= 1 => shared
            /\ Phase >= 2 => joined = timer_count)
    /\ [][timer_count > 0 => Phase' >= Phase]_vars


\* the seconds a field stands for by itself: its decimal value, 0 when it is
\* not an integer
FieldValue(field) == IF AllAsciiDigits(field) THEN DecimalValue(field) ELSE 0

\* three colon-separated fields, at least one of them not a valid integer and
\* none of them an integer written with a sign
HasMalformedField(text) ==
    /\ Len(Split(text)) = 3
    /\ \E k \in 1..3 : ~ParseU32(Split(text)[k]).ok
    /\ \A k \in 1..3 : AllAsciiDigits(Split(text)[k]) \/ ~ParseU32(Split(text)[k]).ok

\* the seconds of the well-formed fields of H:M:S
WellFormedSeconds(text) ==
    FieldValue(Split(text)[1]) * 3600 + FieldValue(Split(text)[2]) * 60
        + FieldValue(Split(text)[3])

\* C20: on a string of three colon-separated fields of which at least one is
\* not a valid integer, parse_time_to_seconds_batch and parse_time_string_fast
\* both return, without error, the seconds of the well-formed fields, the
\* malformed ones counting 0.
C20_MalformedFieldsCountZero ==
    parse_pc = "returned" =>
        \A i \in 1..Len(time_strings) :
            HasMalformedField(time_strings[i]) =>
                /\ ~parse_time_string_fast(time_strings[i]).overflow
                /\ parse_time_string_fast(time_strings[i]).value =
                       WFromNat(WellFormedSeconds(time_strings[i]))
                /\ seconds[i][1] = WFromNat(WellFormedSeconds(time_strings[i]))


\* the positions of a worker thread in the order of its code
WorkerPath ==
    <<"unspawned", "sleeping", "woke", "count_locked", "count_loaded", "count_stored",
      "count_released", "errors_locked", "errors_pushed", "done">>

PathIndex(pc) == CHOOSE i \in 1..Len(WorkerPath) : WorkerPath[i] = pc

\* the workers that have finished sleeping
Awake == {w \in Workers : PathIndex(w_pc[w]) >= PathIndex("woke")}

\* C21: in every reachable state 0 <= len(error list) <= completed counter <=
\* number of workers that have finished sleeping <= timer_count; a worker
\* inside the counter block holds the counter lock and not the list lock of
\* its own, a worker inside the list block has incremented before; every
\* change of the counter is one worker's single increment by one and every
\* change of the list one worker's single append of its own error, each worker
\* going once through its code, counter first and list second.
C21_CounterBetweenListAndAwake ==
    /\ [](/\ 0 <= Len(precision_errors)
          /\ Len(precision_errors) <= completed_count
          /\ completed_count <= Cardinality(Awake)
          /\ Cardinality(Awake) <= timer_count
          /\ \A w \in WorkersAt({"count_locked", "count_loaded", "count_stored"}) :
                count_locked /\ (errors_locked => main_pc # "reported" /\
                    WorkersAt({"errors_locked", "errors_pushed"}) \ {w} # {})
          /\ \A w \in WorkersAt({"errors_locked", "errors_pushed"}) :
                errors_locked /\ (count_locked =>
                    WorkersAt({"count_locked", "count_loaded", "count_stored"}) \ {w} # {}))
    /\ [][/\ \A w \in Workers :
                w_pc'[w] # w_pc[w] => PathIndex(w_pc'[w]) = PathIndex(w_pc[w]) + 1
          /\ completed_count' # completed_count =>
                /\ completed_count' = completed_count + 1
                /\ \E w \in Workers :
                      /\ w_pc[w] = "count_loaded" /\ w_pc'[w] = "count_stored"
                      /\ \A v \in Workers \ {w} : w_pc'[v] = w_pc[v]
          /\ precision_errors' # precision_errors =>
                \E w \in Workers :
                    /\ w_pc[w] = "errors_locked" /\ w_pc'[w] = "errors_pushed"
                    /\ precision_errors' = Append(precision_errors, w_error[w])
                    /\ \A v \in Workers \ {w} : w_pc'[v] = w_pc[v]]_vars

C21_Witness ==
    /\ timer_count = MaxTimers
    /\ Cardinality(Awake) = timer_count
    /\ completed_count = 2
    /\ Len(precision_errors) = 1
    /\ \E w \in Workers : w_pc[w] = "woke"


\* three colon-separated fields that each parse as an unsigned 32-bit integer
U32Fields(text) ==
    /\ Len(Split(text)) = 3
    /\ \A k \in 1..3 : ParseU32(Split(text)[k]).ok

\* hours * 3600 + minutes * 60 + seconds of such a string, as a number
TrueSeconds(text) ==
    WAdd(WAdd(WMulSmall(ParseU32(Split(text)[1]).v, 3600),
              WMulSmall(ParseU32(Split(text)[2]).v, 60)),
         ParseU32(Split(text)[3]).v)

\* C22: for every duration string with three colon-separated fields that each
\* parse as an unsigned 32-bit integer, the seconds of its record are exactly
\* hours * 3600 + minutes * 60 + seconds, the 32-bit computation neither
\* failing on overflow nor wrapping modulo 2^32, and the total_seconds
\* returned for a batch of such strings is the sum of these numbers.
C22_SecondsExactWithoutOverflow ==
    /\ \A k \in 1..Len(results) :
          (results[k] # <<>> /\ U32Fields(duration_strings[results[k][1].pair])) =>
              results[k][1].r.duration_seconds =
                  TrueSeconds(duration_strings[results[k][1].pair])
    /\ (/\ Len(duration_strings) = Len(scores)
        /\ \A i \in 1..Len(duration_strings) : U32Fields(duration_strings[i])) =>
          /\ batch_pc # "panicked"
          /\ (batch_pc = "returned" /\ duration_strings # <<>>) =>
                batch_ret[1].total_seconds =
                    WSum([i \in 1..Len(duration_strings) |-> TrueSeconds(duration_strings[i])])

=============================================================================
